---- MODULE Spec2Model ----
(***************************************************************************)
(* Model of loom.core.preferences.Preferences: a namespaced, JSON-encoded  *)
(* preference store over a byte-addressed key-value mapping (UnQLite).     *)
(*                                                                         *)
(* Text (Python str) and byte strings are sequences of units.  An ASCII    *)
(* character and its byte are the same unit (a one-character string); the  *)
(* non-ASCII character U+00E9 is the text unit "U+E9" and the two bytes    *)
(* "xC3","xA9" in UTF-8; "xFF" is a byte that is valid in no UTF-8 text.   *)
(*                                                                         *)
(* Python values are tagged pairs <<tag, payload>>.                        *)
(***************************************************************************)
EXTENDS Integers, Sequences, FiniteSets, TLC

\* ------------------------------------------------------------ values

PyNone == <<"null", <<>>>>
PyBool(b) == <<"bool", b>>
PyInt(n) == <<"int", n>>
\* a float: sign, whole part, fraction digits (no trailing zero but a lone one)
PyFloat(neg, whole, frac) == <<"float", <<neg, whole, frac>>>>
PyStr(s) == <<"str", s>>
PyBytes(b) == <<"bytes", b>>
PyList(xs) == <<"list", xs>>
\* a dict: its items in insertion order, each <<key text, value>>
PyDict(ps) == <<"dict", ps>>

Tag(v) == v[1]
Payload(v) == v[2]

\* ------------------------------------------------------------ text helpers

Digits == <<"0", "1", "2", "3", "4", "5", "6", "7", "8", "9">>
UpperAlpha == <<"A", "B", "C", "D", "E", "F", "G", "H", "I", "J", "K", "L", "M",
                "N", "O", "P", "Q", "R", "S", "T", "U", "V", "W", "X", "Y", "Z">>
LowerAlpha == <<"a", "b", "c", "d", "e", "f", "g", "h", "i", "j", "k", "l", "m",
                "n", "o", "p", "q", "r", "s", "t", "u", "v", "w", "x", "y", "z">>

IsDigit(c) == \E i \in 1..10 : Digits[i] = c
DigitVal(c) == (CHOOSE i \in 1..10 : Digits[i] = c) - 1

RECURSIVE NatText(_)
NatText(n) ==
  IF n < 10 THEN <<Digits[n + 1]>>
  ELSE NatText(n \div 10) \o <<Digits[(n % 10) + 1]>>

IntText(n) == IF n < 0 THEN <<"-">> \o NatText(-n) ELSE NatText(n)

RECURSIVE TextNat(_)
TextNat(ds) ==
  IF ds = <<>> THEN 0
  ELSE TextNat(SubSeq(ds, 1, Len(ds) - 1)) * 10 + DigitVal(ds[Len(ds)])

HasPrefix(s, p) == Len(s) >= Len(p) /\ SubSeq(s, 1, Len(p)) = p
Drop(s, n) == SubSeq(s, n + 1, Len(s))

\* str.lower() on one character
LowerChar(c) ==
  IF \E i \in 1..26 : UpperAlpha[i] = c
  THEN LowerAlpha[CHOOSE i \in 1..26 : UpperAlpha[i] = c]
  ELSE c

\* str.lower()
Lower(s) == [i \in 1..Len(s) |-> LowerChar(s[i])]

\* the whitespace of str.strip() and of the JSON scanner
IsWs(c) == c \in {" ", "\t", "\n", "\r"}

RECURSIVE SkipWs(_)
SkipWs(s) == IF s # <<>> /\ IsWs(s[1]) THEN SkipWs(Tail(s)) ELSE s

RECURSIVE RStrip(_)
RStrip(s) ==
  IF s # <<>> /\ IsWs(s[Len(s)]) THEN RStrip(SubSeq(s, 1, Len(s) - 1)) ELSE s

\* str.strip()
Strip(s) == RStrip(SkipWs(s))

RECURSIVE TakeDigits(_)
TakeDigits(s) ==
  IF s # <<>> /\ IsDigit(s[1]) THEN <<s[1]>> \o TakeDigits(Tail(s)) ELSE <<>>

\* fraction digits in canonical form: "50" and "5" are the same float
RECURSIVE NormFrac(_)
NormFrac(ds) ==
  IF Len(ds) > 1 /\ ds[Len(ds)] = "0" THEN NormFrac(SubSeq(ds, 1, Len(ds) - 1))
  ELSE ds

\* ------------------------------------------------------------ UTF-8

\* the non-ASCII characters of the model: <<text unit, bytes, \u escape digits>>
NonAscii == { <<"U+E9", <<"xC3", "xA9">>, <<"0", "0", "e", "9">>>> }
HighBytes == {"xC3", "xA9", "xFF"}

IsNonAscii(c) == \E e \in NonAscii : e[1] = c
EntryOf(c) == CHOOSE e \in NonAscii : e[1] = c

\* str.encode("utf-8"), what the mapping does to a str key or value
RECURSIVE Utf8Encode(_)
Utf8Encode(t) ==
  IF t = <<>> THEN <<>>
  ELSE (IF IsNonAscii(t[1]) THEN EntryOf(t[1])[2] ELSE <<t[1]>>)
       \o Utf8Encode(Tail(t))

\* the multi-byte sequence b starts with, if any
StartsMulti(b) == \E e \in NonAscii : HasPrefix(b, e[2])
MultiOf(b) == CHOOSE e \in NonAscii : HasPrefix(b, e[2])

\* bytes.decode("utf-8", errors="ignore"): undecodable bytes are dropped
RECURSIVE Utf8DecodeIgnore(_)
Utf8DecodeIgnore(b) ==
  IF b = <<>> THEN <<>>
  ELSE IF StartsMulti(b)
       THEN <<MultiOf(b)[1]>> \o Utf8DecodeIgnore(Drop(b, Len(MultiOf(b)[2])))
  ELSE IF b[1] \in HighBytes THEN Utf8DecodeIgnore(Tail(b))
  ELSE <<b[1]>> \o Utf8DecodeIgnore(Tail(b))

\* whether bytes.decode("utf-8") succeeds
RECURSIVE Utf8Valid(_)
Utf8Valid(b) ==
  IF b = <<>> THEN TRUE
  ELSE IF StartsMulti(b) THEN Utf8Valid(Drop(b, Len(MultiOf(b)[2])))
  ELSE IF b[1] \in HighBytes THEN FALSE
  ELSE Utf8Valid(Tail(b))

\* ------------------------------------------------------------ json.dumps

\* EscapeChar with the escape of the double quote left out
EscapeChar_NoQuote(c) ==
  CASE c = "\\" -> <<"\\", "\\">>
    [] c = "\n" -> <<"\\", "n">>
    [] c = "\r" -> <<"\\", "r">>
    [] c = "\t" -> <<"\\", "t">>
    [] IsNonAscii(c) -> <<"\\", "u">> \o EntryOf(c)[3]
    [] OTHER -> <<c>>

\* the escape json.dumps (ensure_ascii) writes for one character of a string
EscapeChar(c) ==
  CASE c = "\"" -> <<"\\", "\"">>
    [] c = "\\" -> <<"\\", "\\">>
    [] c = "\n" -> <<"\\", "n">>
    [] c = "\r" -> <<"\\", "r">>
    [] c = "\t" -> <<"\\", "t">>
    [] IsNonAscii(c) -> <<"\\", "u">> \o EntryOf(c)[3]
    [] OTHER -> <<c>>

RECURSIVE EscapeText(_)
EscapeText(t) ==
  IF t = <<>> THEN <<>> ELSE EscapeChar(t[1]) \o EscapeText(Tail(t))

QuoteText(t) == <<"\"">> \o EscapeText(t) \o <<"\"">>

FloatText(f) ==
  (IF f[1] THEN <<"-">> ELSE <<>>) \o NatText(f[2]) \o <<".">> \o f[3]

RECURSIVE json_dumps(_), DumpItems(_), DumpMembers(_)
\* json.dumps(value) with the default separators ", " and ": "
json_dumps(v) ==
  CASE Tag(v) = "null" -> <<"n", "u", "l", "l">>
    [] Tag(v) = "bool" ->
         IF Payload(v) THEN <<"t", "r", "u", "e">> ELSE <<"f", "a", "l", "s", "e">>
    [] Tag(v) = "int" -> IntText(Payload(v))
    [] Tag(v) = "float" -> FloatText(Payload(v))
    [] Tag(v) = "str" -> QuoteText(Payload(v))
    [] Tag(v) = "list" -> <<"[">> \o DumpItems(Payload(v)) \o <<"]">>
    [] Tag(v) = "dict" -> <<"{">> \o DumpMembers(Payload(v)) \o <<"}">>

DumpItems(xs) ==
  IF xs = <<>> THEN <<>>
  ELSE json_dumps(xs[1])
       \o (IF Len(xs) > 1 THEN <<",", " ">> \o DumpItems(Tail(xs)) ELSE <<>>)

DumpMembers(ps) ==
  IF ps = <<>> THEN <<>>
  ELSE QuoteText(ps[1][1]) \o <<":", " ">> \o json_dumps(ps[1][2])
       \o (IF Len(ps) > 1 THEN <<",", " ">> \o DumpMembers(Tail(ps)) ELSE <<>>)

\* ------------------------------------------------------------ json.loads

\* a scan result: <<succeeded, value, rest of the text>>
Fail == <<FALSE, <<>>, <<>>>>
Ok(v, rest) == <<TRUE, v, rest>>

\* the character a two-character escape stands for
SimpleEscapes == { <<"\"", "\"">>, <<"\\", "\\">>, <<"/", "/">>,
                   <<"n", "\n">>, <<"r", "\r">>, <<"t", "\t">> }
IsSimpleEscape(c) == \E e \in SimpleEscapes : e[1] = c
Unescape(c) == (CHOOSE e \in SimpleEscapes : e[1] = c)[2]

\* the character of a \uXXXX escape (hex digits in either case)
IsKnownHex(h) == \E e \in NonAscii : e[3] = Lower(h)
UnitOfHex(h) == (CHOOSE e \in NonAscii : e[3] = Lower(h))[1]

\* the scanner's number: -?(0|[1-9][0-9]*)(\.[0-9]+)?  (no exponent is modelled)
ParseNumber(s) ==
  LET neg == s # <<>> /\ s[1] = "-"
      s1 == IF neg THEN Tail(s) ELSE s
  IN IF s1 = <<>> \/ ~IsDigit(s1[1]) THEN Fail
     ELSE LET intDs == IF s1[1] = "0" THEN <<"0">> ELSE TakeDigits(s1)
              s2 == Drop(s1, Len(intDs))
              hasFrac == Len(s2) >= 2 /\ s2[1] = "." /\ IsDigit(s2[2])
              fracDs == IF hasFrac THEN TakeDigits(Tail(s2)) ELSE <<>>
              s3 == IF hasFrac THEN Drop(s2, 1 + Len(fracDs)) ELSE s2
              n == TextNat(intDs)
          IN IF hasFrac THEN Ok(PyFloat(neg, n, NormFrac(fracDs)), s3)
             ELSE Ok(PyInt(IF neg THEN -n ELSE n), s3)

\* the body of a string after its opening quote (strict: no raw control character)
RECURSIVE ScanString(_, _)
ScanString(s, acc) ==
  IF s = <<>> THEN Fail
  ELSE IF s[1] = "\"" THEN Ok(PyStr(acc), Tail(s))
  ELSE IF s[1] = "\\" THEN
    IF Len(s) < 2 THEN Fail
    ELSE IF s[2] = "u" THEN
      IF Len(s) >= 6 /\ IsKnownHex(SubSeq(s, 3, 6))
      THEN ScanString(Drop(s, 6), Append(acc, UnitOfHex(SubSeq(s, 3, 6))))
      ELSE Fail
    ELSE IF IsSimpleEscape(s[2])
      THEN ScanString(Drop(s, 2), Append(acc, Unescape(s[2])))
      ELSE Fail
  ELSE IF s[1] \in {"\n", "\r", "\t"} THEN Fail
  ELSE ScanString(Tail(s), Append(acc, s[1]))

\* dict[k] = v on the items of a dict: a repeated key keeps its place
DictPut(ps, k, v) ==
  IF \E i \in 1..Len(ps) : ps[i][1] = k
  THEN [i \in 1..Len(ps) |-> IF ps[i][1] = k THEN <<k, v>> ELSE ps[i]]
  ELSE Append(ps, <<k, v>>)

RECURSIVE ParseValue(_), ParseElems(_, _), ParseMembers(_, _)
\* scan_once at the start of s
ParseValue(s) ==
  IF s = <<>> THEN Fail
  ELSE CASE s[1] = "\"" -> ScanString(Tail(s), <<>>)
         [] s[1] = "{" ->
              LET t == SkipWs(Tail(s))
              IN IF t # <<>> /\ t[1] = "}" THEN Ok(PyDict(<<>>), Tail(t))
                 ELSE ParseMembers(t, <<>>)
         [] s[1] = "[" ->
              LET t == SkipWs(Tail(s))
              IN IF t # <<>> /\ t[1] = "]" THEN Ok(PyList(<<>>), Tail(t))
                 ELSE ParseElems(t, <<>>)
         [] HasPrefix(s, <<"n", "u", "l", "l">>) -> Ok(PyNone, Drop(s, 4))
         [] HasPrefix(s, <<"t", "r", "u", "e">>) -> Ok(PyBool(TRUE), Drop(s, 4))
         [] HasPrefix(s, <<"f", "a", "l", "s", "e">>) -> Ok(PyBool(FALSE), Drop(s, 5))
         [] OTHER -> ParseNumber(s)

\* the elements of an array, s at the start of the next element
ParseElems(s, acc) ==
  LET r == ParseValue(s)
  IN IF ~r[1] THEN Fail
     ELSE LET t == SkipWs(r[3])
          IN IF t = <<>> THEN Fail
             ELSE IF t[1] = "]" THEN Ok(PyList(Append(acc, r[2])), Tail(t))
             ELSE IF t[1] = "," THEN ParseElems(SkipWs(Tail(t)), Append(acc, r[2]))
             ELSE Fail

\* the members of an object, s at the start of the next key
ParseMembers(s, acc) ==
  IF s = <<>> \/ s[1] # "\"" THEN Fail
  ELSE LET k == ScanString(Tail(s), <<>>)
       IN IF ~k[1] THEN Fail
          ELSE LET t == SkipWs(k[3])
               IN IF t = <<>> \/ t[1] # ":" THEN Fail
                  ELSE LET r == ParseValue(SkipWs(Tail(t)))
                       IN IF ~r[1] THEN Fail
                          ELSE LET u == SkipWs(r[3])
                                   ps == DictPut(acc, Payload(k[2]), r[2])
                               IN IF u = <<>> THEN Fail
                                  ELSE IF u[1] = "}" THEN Ok(PyDict(ps), Tail(u))
                                  ELSE IF u[1] = ","
                                    THEN ParseMembers(SkipWs(Tail(u)), ps)
                                  ELSE Fail

\* json.loads on text: one value, whitespace around it, nothing after it
LoadsText(t) ==
  LET r == ParseValue(SkipWs(t))
  IN IF r[1] /\ SkipWs(r[3]) = <<>> THEN r ELSE Fail

\* json.loads on the bytes the mapping returns: decoded as strict UTF-8 first
json_loads(b) == IF Utf8Valid(b) THEN LoadsText(Utf8DecodeIgnore(b)) ELSE Fail

\* ------------------------------------------------------------ type_(value)

\* the sign and the unsigned rest of a stripped numeric literal
SignOf(s) == s # <<>> /\ s[1] = "-"
Unsigned(s) == IF s # <<>> /\ s[1] \in {"-", "+"} THEN Tail(s) ELSE s

\* int(s) for text or bytes s: <<succeeded, value>>
IntOfText(s) ==
  LET u == Unsigned(Strip(s))
  IN IF u # <<>> /\ TakeDigits(u) = u
     THEN <<TRUE, PyInt(IF SignOf(Strip(s)) THEN -TextNat(u) ELSE TextNat(u))>>
     ELSE <<FALSE, PyNone>>

\* float(s) for text or bytes s (digits with an optional point; no exponent,
\* "inf" or "nan" is modelled): <<succeeded, value>>
FloatOfText(s) ==
  LET u == Unsigned(Strip(s))
      w == TakeDigits(u)
      r == Drop(u, Len(w))
      f == IF r # <<>> /\ r[1] = "." THEN TakeDigits(Tail(r)) ELSE <<>>
      rest == IF r # <<>> /\ r[1] = "." THEN Drop(r, 1 + Len(f)) ELSE r
  IN IF rest = <<>> /\ Len(w) + Len(f) > 0
     THEN <<TRUE, PyFloat(SignOf(Strip(s)), TextNat(w),
                          IF f = <<>> THEN <<"0">> ELSE NormFrac(f))>>
     ELSE <<FALSE, PyNone>>

\* int(value): <<succeeded, value>>; a list, a dict raise TypeError
int(value) ==
  CASE Tag(value) = "bool" -> <<TRUE, PyInt(IF Payload(value) THEN 1 ELSE 0)>>
    [] Tag(value) = "int" -> <<TRUE, value>>
    [] Tag(value) = "float" ->
         <<TRUE, PyInt(IF Payload(value)[1] THEN -Payload(value)[2]
                       ELSE Payload(value)[2])>>
    [] Tag(value) \in {"str", "bytes"} -> IntOfText(Payload(value))
    [] OTHER -> <<FALSE, PyNone>>

\* float(value): <<succeeded, value>>
float(value) ==
  CASE Tag(value) = "bool" ->
         <<TRUE, PyFloat(FALSE, IF Payload(value) THEN 1 ELSE 0, <<"0">>)>>
    [] Tag(value) = "int" ->
         <<TRUE, PyFloat(Payload(value) < 0,
                         IF Payload(value) < 0 THEN -Payload(value)
                         ELSE Payload(value), <<"0">>)>>
    [] Tag(value) = "float" -> <<TRUE, value>>
    [] Tag(value) \in {"str", "bytes"} -> FloatOfText(Payload(value))
    [] OTHER -> <<FALSE, PyNone>>

\* bool() measuring a string after stripping it
bool_Stripped(value) ==
  CASE Tag(value) = "null" -> <<TRUE, PyBool(FALSE)>>
    [] Tag(value) = "bool" -> <<TRUE, value>>
    [] Tag(value) = "int" -> <<TRUE, PyBool(Payload(value) # 0)>>
    [] Tag(value) = "float" ->
         <<TRUE, PyBool(~(Payload(value)[2] = 0 /\ Payload(value)[3] = <<"0">>))>>
    [] Tag(value) = "str" -> <<TRUE, PyBool(Len(Strip(Payload(value))) > 0)>>
    [] OTHER -> <<TRUE, PyBool(Len(Payload(value)) > 0)>>

\* bool(value): truthiness, which never raises
bool(value) ==
  CASE Tag(value) = "null" -> <<TRUE, PyBool(FALSE)>>
    [] Tag(value) = "bool" -> <<TRUE, value>>
    [] Tag(value) = "int" -> <<TRUE, PyBool(Payload(value) # 0)>>
    [] Tag(value) = "float" ->
         <<TRUE, PyBool(~(Payload(value)[2] = 0 /\ Payload(value)[3] = <<"0">>))>>
    [] OTHER -> <<TRUE, PyBool(Len(Payload(value)) > 0)>>

\* the types get is called with; "none" is type_=None
Types == {"none", "int", "float", "bool"}

\* type_(value)
Construct(type_, value) ==
  CASE type_ = "int" -> int(value)
    [] type_ = "float" -> float(value)
    [] type_ = "bool" -> bool(value)

TruthyStrings == { <<"1">>, <<"t", "r", "u", "e">>, <<"y", "e", "s">>, <<"y">>,
                   <<"o", "n">> }
FalsyStrings == { <<"0">>, <<"f", "a", "l", "s", "e">>, <<"n", "o">>, <<"n">>,
                  <<"o", "f", "f">> }

\* Cast comparing the string as stored, without strip()
Cast_NoStrip(value, default, type_) ==
  LET v == Lower(Payload(value))
      c == Construct(type_, value)
  IN IF type_ = "bool" /\ Tag(value) = "str" /\ v \in TruthyStrings
       THEN PyBool(TRUE)
     ELSE IF type_ = "bool" /\ Tag(value) = "str" /\ v \in FalsyStrings
       THEN PyBool(FALSE)
     ELSE IF c[1] THEN c[2]
     ELSE default

\* Cast falling back to the decoded value, not the default, when type_ raises
Cast_KeepValue(value, default, type_) ==
  LET v == Lower(Strip(Payload(value)))
      c == Construct(type_, value)
  IN IF type_ = "bool" /\ Tag(value) = "str" /\ v \in TruthyStrings
       THEN PyBool(TRUE)
     ELSE IF type_ = "bool" /\ Tag(value) = "str" /\ v \in FalsyStrings
       THEN PyBool(FALSE)
     ELSE IF c[1] THEN c[2]
     ELSE value

\* the try block of get: the cast of a decoded value that is not None
Cast(value, default, type_) ==
  LET v == Lower(Strip(Payload(value)))
      c == Construct(type_, value)
  IN IF type_ = "bool" /\ Tag(value) = "str" /\ v \in TruthyStrings
       THEN PyBool(TRUE)
     ELSE IF type_ = "bool" /\ Tag(value) = "str" /\ v \in FalsyStrings
       THEN PyBool(FALSE)
     ELSE IF c[1] THEN c[2]
     ELSE default

\* ------------------------------------------------------------ the mapping

PREFS_PREFIX == <<"p", "r", "e", "f", "s", ":">>

\* _k leaving a key alone that already starts with the prefix
PrefKey_Once(key) ==
  IF HasPrefix(key, PREFS_PREFIX) THEN key ELSE PREFS_PREFIX \o key

\* Preferences._k
PrefKey(key) == PREFS_PREFIX \o key

\* the mapping's key for a str key
RawKey(k) == Utf8Encode(k)

\* self._db[k] = v for a str v
Store(d, k, v) ==
  [x \in DOMAIN d \cup {RawKey(k)} |-> IF x = RawKey(k) THEN Utf8Encode(v) ELSE d[x]]

\* del that removes nothing
Remove_Keep(d, k) == d

\* del self._db[k]
Remove(d, k) == [x \in DOMAIN d \ {RawKey(k)} |-> d[x]]

\* k in self._db
Contains(d, k) == RawKey(k) \in DOMAIN d

\* the key of an item of self._db.items(), as str
ItemKey(rk) == Utf8DecodeIgnore(rk)

\* PrefItems matching the prefix in any case
PrefItems_AnyCase(d) ==
  {rk \in DOMAIN d : HasPrefix(Lower(ItemKey(rk)), PREFS_PREFIX)}

\* the raw keys of the items that all and clear take for preferences
PrefItems(d) == {rk \in DOMAIN d : HasPrefix(ItemKey(rk), PREFS_PREFIX)}

\* ------------------------------------------------------------ Preferences

\* Decoded falling back to the bytes as text, as all does
Decoded_AsText(b) ==
  IF json_loads(b)[1] THEN json_loads(b)[2] ELSE PyStr(Utf8DecodeIgnore(b))

\* the value get decodes: json.loads of the stored bytes, or the bytes themselves
Decoded(b) == IF json_loads(b)[1] THEN json_loads(b)[2] ELSE PyBytes(b)

\* get casting the default too when the key is absent
get_CastDefault(d, key, default, type_) ==
  LET value == IF Contains(d, PrefKey(key))
               THEN Decoded(d[RawKey(PrefKey(key))])
               ELSE default
  IN IF type_ # "none" /\ Tag(value) # "null"
     THEN Cast(value, default, type_)
     ELSE value

\* get casting a stored None as well
get_CastNull(d, key, default, type_) ==
  IF ~Contains(d, PrefKey(key)) THEN default
  ELSE LET value == Decoded(d[RawKey(PrefKey(key))])
       IN IF type_ # "none"
          THEN Cast(value, default, type_)
          ELSE value

\* Preferences.get on the mapping d
get(d, key, default, type_) ==
  IF ~Contains(d, PrefKey(key)) THEN default
  ELSE LET value == Decoded(d[RawKey(PrefKey(key))])
       IN IF type_ # "none" /\ Tag(value) # "null"
          THEN Cast(value, default, type_)
          ELSE value

\* Preferences.exists on the mapping d
exists(d, key) == Contains(d, PrefKey(key))

\* the value all decodes: the bytes as text, then json.loads, or the text itself
DecodedItem(b) ==
  LET v == Utf8DecodeIgnore(b)
  IN IF LoadsText(v)[1] THEN LoadsText(v)[2] ELSE PyStr(v)

\* Preferences.all on the mapping d: the dict out, as a function
all(d) ==
  [raw_key \in {Drop(ItemKey(rk), Len(PREFS_PREFIX)) : rk \in PrefItems(d)} |->
     DecodedItem(d[CHOOSE rk \in PrefItems(d) :
                     Drop(ItemKey(rk), Len(PREFS_PREFIX)) = raw_key])]

\* ------------------------------------------------------------ state

\* db:   self._db, the mapping from raw keys to stored bytes
\* call: the last call made on the Preferences object and its arguments
\* ret:  what that call returned
VARIABLES db, call, ret, fs, vault

vars == <<db, call, ret, fs, vault>>

\* what lies outside the mapping: the directories that exist, the keychain
env == <<fs, vault>>

\* a keychain holding data, and the calls it received during the last call
Vault(data, log) == [data |-> data, log |-> log]

\* where the mapping is opened on a given db_path: no directory is looked at
\* and the keychain is empty
NoEnv == fs = {} /\ vault = Vault(<<>>, <<>>)

Call(op, key, value, default, type_) ==
  [op |-> op, key |-> key, value |-> value, default |-> default, type_ |-> type_]

\* the dict all returns, tagged like the other values
PyMap(f) == <<"map", f>>

\* ------------------------------------------------------------ inputs

\* the most preferences the mapping holds at once
MaxEntries == 2

\* the keys the calls are made with: "", "a" and "prefs:" itself
Keys == { <<>>, <<"a">>, PREFS_PREFIX }

\* the values set is called with where several keys are in play
Values ==
  { PyNone, PyInt(42), PyStr(<<"n", "o">>),
    PyDict(<< <<<<"k">>, PyDict(<< <<<<"n">>, PyList(<<PyNone>>)>> >>)>> >>) }

\* the defaults get is called with
Defaults == { PyNone, PyInt(99) }

\* the types get is called with where several keys are in play
SomeTypes == { "none", "int" }

\* entries of other namespaces in the same mapping: "other:key", "prefs" and
\* "Prefs:a", none of which starts with "prefs:"
ForeignEntries ==
  LET other == <<"o", "t", "h", "e", "r", ":", "k", "e", "y">>
      short == <<"p", "r", "e", "f", "s">>
      upper == <<"P", "r", "e", "f", "s", ":", "a">>
  IN [rk \in {other, short, upper} |->
        IF rk = other THEN json_dumps(PyStr(<<"v">>))
        ELSE IF rk = short THEN <<"r", "a", "w">>
        ELSE json_dumps(PyInt(1))]

\* bytes written under a preference key by older or foreign code: not JSON,
\* not UTF-8 before a number, JSON not written by set
RawValues == { <<"r", "a", "w">>, <<"xFF", "4", "2">>, <<" ", "7">> }

\* a mapping with the foreign entries f and the legacy entries l
Merge(f, l) ==
  [rk \in DOMAIN f \cup DOMAIN l |-> IF rk \in DOMAIN l THEN l[rk] ELSE f[rk]]

\* the bytes b stored under the namespaced key of k
Legacy(k, b) == [rk \in {RawKey(PrefKey(k))} |-> b]

\* the mappings a Preferences object may be opened on
InitStores ==
  { Merge(f, l) :
      f \in { <<>>, ForeignEntries },
      l \in { <<>> } \cup { Legacy(k, b) : k \in Keys, b \in RawValues } }

Init ==
  /\ db \in InitStores
  /\ call = Call("open", <<>>, PyNone, PyNone, "none")
  /\ ret = PyNone
  /\ NoEnv

\* the one key of the calls where the values and types vary
OneKey == <<"a">>

\* strings that get(type_=bool) reads as true
TrueStrings ==
  { <<"1">>, <<"t", "r", "u", "e">>, <<"T", "r", "u", "e">>,
    <<"T", "R", "U", "E">>, <<"y", "e", "s">>, <<"Y", "e", "s">>, <<"y">>,
    <<"Y">>, <<"o", "n">>, <<"O", "N">>, <<" ", "y", "e", "s", " ">>,
    <<"\t", "O", "n", "\n">> }

\* strings that get(type_=bool) reads as false
FalseStrings ==
  { <<"0">>, <<"f", "a", "l", "s", "e">>, <<"F", "a", "l", "s", "e">>,
    <<"F", "A", "L", "S", "E">>, <<"n", "o">>, <<"N", "o">>, <<"n">>, <<"N">>,
    <<"o", "f", "f">>, <<"O", "F", "F">>, <<" ", "n", "o", " ">>,
    <<"\t", "O", "F", "F", "\n">> }

\* other strings: empty, blank, no boolean word, numbers, no number, escapes
OtherStrings ==
  { <<>>, <<" ">>, <<"m", "a", "y", "b", "e">>, <<"4", "2">>,
    <<" ", "7", " ">>, <<"-", "1">>, <<"3", ".", "5">>, <<"1", ".", "5", "0">>,
    <<"a", "b", "c">>, <<"a", "\"", "\\", "U+E9">> }

\* the values set is called with where one key is in play: every JSON shape
TypedValues ==
  { PyNone, PyBool(TRUE), PyBool(FALSE), PyInt(0), PyInt(42), PyInt(-7),
    PyFloat(FALSE, 3, <<"5">>), PyFloat(FALSE, 0, <<"0">>), PyFloat(TRUE, 2, <<"2", "5">>),
    PyList(<<>>),
    PyList(<<PyBool(TRUE), PyFloat(FALSE, 0, <<"2", "5">>), PyStr(<<"a", "\"", "U+E9">>)>>),
    PyDict(<<>>),
    PyDict(<< <<<<"k">>, PyDict(<< <<<<"n">>, PyList(<<PyNone, PyInt(1)>>)>> >>)>>,
              << <<>>, PyStr(<<>>)>> >>) }
  \cup { PyStr(s) : s \in TrueStrings \cup FalseStrings \cup OtherStrings }

\* legacy bytes where one key is in play: also a boolean word, numbers that
\* int() reads and JSON does not, and UTF-8 text that is not JSON
TypedRawValues ==
  RawValues \cup { <<"N", "o">>, <<"+", "5">>, <<"0", "4", "2">>, <<"xC3", "xA9">> }

InitTyped ==
  /\ db \in { Merge(f, l) :
               f \in { <<>>, ForeignEntries },
               l \in { <<>> } \cup { Legacy(OneKey, b) : b \in TypedRawValues } }
  /\ call = Call("open", <<>>, PyNone, PyNone, "none")
  /\ ret = PyNone
  /\ NoEnv

\* ------------------------------------------------------------ operations

\* Preferences.set
Set(key, value) ==
  /\ Contains(db, PrefKey(key)) \/ Cardinality(PrefItems(db)) < MaxEntries
  /\ db' = Store(db, PrefKey(key), json_dumps(value))
  /\ call' = Call("set", key, value, PyNone, "none")
  /\ ret' = PyNone
  /\ UNCHANGED env

\* get storing a legacy value it read back as JSON text
Get_Rewrite(key, default, type_) ==
  /\ call' = Call("get", key, PyNone, default, type_)
  /\ ret' = get(db, key, default, type_)
  /\ db' = IF Contains(db, PrefKey(key)) /\ ~json_loads(db[RawKey(PrefKey(key))])[1]
           THEN Store(db, PrefKey(key),
                      json_dumps(PyStr(Utf8DecodeIgnore(db[RawKey(PrefKey(key))]))))
           ELSE db
  /\ UNCHANGED env

\* Preferences.get
Get(key, default, type_) ==
  /\ call' = Call("get", key, PyNone, default, type_)
  /\ ret' = get(db, key, default, type_)
  /\ UNCHANGED db
  /\ UNCHANGED env

\* Preferences.delete
Delete(key) ==
  /\ call' = Call("delete", key, PyNone, PyNone, "none")
  /\ IF Contains(db, PrefKey(key))
     THEN db' = Remove(db, PrefKey(key)) /\ ret' = PyBool(TRUE)
     ELSE db' = db /\ ret' = PyBool(FALSE)
  /\ UNCHANGED env

\* Preferences.exists
Exists(key) ==
  /\ call' = Call("exists", key, PyNone, PyNone, "none")
  /\ ret' = PyBool(exists(db, key))
  /\ UNCHANGED db
  /\ UNCHANGED env

\* Preferences.all
All ==
  /\ call' = Call("all", <<>>, PyNone, PyNone, "none")
  /\ ret' = PyMap(all(db))
  /\ UNCHANGED db
  /\ UNCHANGED env

\* ToDelete passing over the entry of the empty key
ToDelete_NonEmpty(d) ==
  {ItemKey(rk) : rk \in {x \in PrefItems(d) : ItemKey(x) # PREFS_PREFIX}}

\* the keys clear collects and then deletes, as str
ToDelete(d) == {ItemKey(rk) : rk \in PrefItems(d)}

\* Preferences.clear
Clear ==
  /\ call' = Call("clear", <<>>, PyNone, PyNone, "none")
  /\ db' = [rk \in DOMAIN db \ {RawKey(k) : k \in ToDelete(db)} |-> db[rk]]
  /\ ret' = PyInt(Cardinality(PrefItems(db)))
  /\ UNCHANGED env

Next ==
  \/ \E key \in Keys, value \in Values : Set(key, value)
  \/ \E key \in Keys, default \in Defaults, type_ \in SomeTypes :
       Get(key, default, type_)
  \/ \E key \in Keys : Delete(key)
  \/ \E key \in Keys : Exists(key)
  \/ All
  \/ Clear

\* several keys, a few values: what the calls do to the mapping
Spec == Init /\ [][Next]_vars

NextTyped ==
  \/ \E value \in TypedValues : Set(OneKey, value)
  \/ \E default \in Defaults, type_ \in Types : Get(OneKey, default, type_)
  \/ Delete(OneKey)
  \/ Exists(OneKey)
  \/ All
  \/ Clear

\* one key, every shape of value and every type_: what set stores and get reads
SpecTyped == InitTyped /\ [][NextTyped]_vars

\* ------------------------------------------------------------ store failures

\* what a call ends with when an error of the mapping reaches the caller
Raised == <<"raise", "UnQLiteError">>

\* a call, the accesses of self._db that raise during it and, for clear, the
\* position in to_delete of the deletion that raises
CallIO(op, key, value, default, type_, fail, at) ==
  [op |-> op, key |-> key, value |-> value, default |-> default,
   type_ |-> type_, fail |-> fail, at |-> at]

\* Preferences.get on the mapping d when the accesses in fail raise: the
\* membership test, the read inside try, the read inside except
getIO(d, key, default, type_, fail) ==
  IF "contains" \in fail THEN Raised
  ELSE IF ~Contains(d, PrefKey(key)) THEN default
  ELSE LET stored == d[RawKey(PrefKey(key))]
           loaded == IF "read" \in fail THEN Fail ELSE json_loads(stored)
       IN IF ~loaded[1] /\ "reread" \in fail THEN Raised
          ELSE LET value == IF loaded[1] THEN loaded[2] ELSE PyBytes(stored)
               IN IF type_ # "none" /\ Tag(value) # "null"
                  THEN Cast(value, default, type_)
                  ELSE value

\* the one value set is called with where accesses fail
FaultValues == { PyInt(42) }

\* the mappings a Preferences object is opened on where accesses fail
FaultStores ==
  { Merge(ForeignEntries, l) : l \in { <<>>, Legacy(OneKey, <<"r", "a", "w">>) } }

InitFault ==
  /\ db \in FaultStores
  /\ call = CallIO("open", <<>>, PyNone, PyNone, "none", {}, 0)
  /\ ret = PyNone
  /\ NoEnv

\* Preferences.set, the store raising or not
SetIO(key, value, fail) ==
  /\ Contains(db, PrefKey(key)) \/ Cardinality(PrefItems(db)) < MaxEntries
  /\ call' = CallIO("set", key, value, PyNone, "none", fail, 0)
  /\ IF "store" \in fail
     THEN db' = db /\ ret' = Raised
     ELSE db' = Store(db, PrefKey(key), json_dumps(value)) /\ ret' = PyNone
  /\ UNCHANGED env

\* Preferences.get, its accesses raising or not
GetIO(key, default, type_, fail) ==
  /\ call' = CallIO("get", key, PyNone, default, type_, fail, 0)
  /\ ret' = getIO(db, key, default, type_, fail)
  /\ UNCHANGED db
  /\ UNCHANGED env

\* Preferences.delete, the membership test or the del raising or not
DeleteIO(key, fail) ==
  /\ call' = CallIO("delete", key, PyNone, PyNone, "none", fail, 0)
  /\ IF "contains" \in fail THEN db' = db /\ ret' = Raised
     ELSE IF ~Contains(db, PrefKey(key)) THEN db' = db /\ ret' = PyBool(FALSE)
     ELSE IF "del" \in fail THEN db' = db /\ ret' = Raised
     ELSE db' = Remove(db, PrefKey(key)) /\ ret' = PyBool(TRUE)
  /\ UNCHANGED env

\* Preferences.exists, the membership test raising or not
ExistsIO(key, fail) ==
  /\ call' = CallIO("exists", key, PyNone, PyNone, "none", fail, 0)
  /\ ret' = IF "contains" \in fail THEN Raised ELSE PyBool(exists(db, key))
  /\ UNCHANGED db
  /\ UNCHANGED env

\* Preferences.all, items() raising or not
AllIO(fail) ==
  /\ call' = CallIO("all", <<>>, PyNone, PyNone, "none", fail, 0)
  /\ ret' = IF "items" \in fail THEN Raised ELSE PyMap(all(db))
  /\ UNCHANGED db
  /\ UNCHANGED env

\* clear returning the number of deletions done when a deletion raises
ClearIO_Swallow(fail, at) ==
  /\ call' = CallIO("clear", <<>>, PyNone, PyNone, "none", fail, at)
  /\ IF "items" \in fail THEN at = 0 /\ db' = db /\ ret' = Raised
     ELSE IF "del" \in fail
     THEN /\ at \in 1..Cardinality(ToDelete(db))
          /\ \E done \in SUBSET ToDelete(db) :
               /\ Cardinality(done) = at - 1
               /\ db' = [rk \in DOMAIN db \ {RawKey(k) : k \in done} |-> db[rk]]
          /\ ret' = PyInt(at - 1)
     ELSE /\ at = 0
          /\ db' = [rk \in DOMAIN db \ {RawKey(k) : k \in ToDelete(db)} |-> db[rk]]
          /\ ret' = PyInt(Cardinality(ToDelete(db)))
  /\ UNCHANGED env

\* Preferences.clear, items() or the at-th deletion raising or not; the
\* deletions done before it are any at - 1 keys of to_delete, in the order
\* items() gave them
ClearIO(fail, at) ==
  /\ call' = CallIO("clear", <<>>, PyNone, PyNone, "none", fail, at)
  /\ IF "items" \in fail THEN at = 0 /\ db' = db /\ ret' = Raised
     ELSE IF "del" \in fail
     THEN /\ at \in 1..Cardinality(ToDelete(db))
          /\ \E done \in SUBSET ToDelete(db) :
               /\ Cardinality(done) = at - 1
               /\ db' = [rk \in DOMAIN db \ {RawKey(k) : k \in done} |-> db[rk]]
          /\ ret' = Raised
     ELSE /\ at = 0
          /\ db' = [rk \in DOMAIN db \ {RawKey(k) : k \in ToDelete(db)} |-> db[rk]]
          /\ ret' = PyInt(Cardinality(ToDelete(db)))
  /\ UNCHANGED env

NextFault ==
  \/ \E key \in Keys, value \in FaultValues, fail \in SUBSET {"store"} :
       SetIO(key, value, fail)
  \/ \E key \in Keys, default \in Defaults, type_ \in SomeTypes,
         fail \in SUBSET {"contains", "read", "reread"} :
       GetIO(key, default, type_, fail)
  \/ \E key \in Keys, fail \in SUBSET {"contains", "del"} : DeleteIO(key, fail)
  \/ \E key \in Keys, fail \in SUBSET {"contains"} : ExistsIO(key, fail)
  \/ \E fail \in SUBSET {"items"} : AllIO(fail)
  \/ \E fail \in {{}, {"items"}, {"del"}}, at \in 0..MaxEntries : ClearIO(fail, at)

\* the calls when any access of the mapping may raise
SpecFault == InitFault /\ [][NextFault]_vars

\* ------------------------------------------------------------ paths

APP_NAME == "Loom"

DB_FILENAME == "db.unqlite"

\* the home directory of the user; a path is the sequence of its components
Home == <<"Users", "me">>

\* os.path.expanduser
expanduser(path) ==
  IF path # <<>> /\ path[1] = "~" THEN Home \o Tail(path) ELSE path

\* os.path.join(path, name) for a relative name
join(path, name) == Append(path, name)

\* the directories after os.makedirs(path, exist_ok=True): path and every
\* directory above it
makedirs(dirs, path) == dirs \cup {SubSeq(path, 1, n) : n \in 1..Len(path)}

\* base_dir of get_working_dir
BaseDir == expanduser(<<"~", "Library", "Application Support", APP_NAME>>)

\* what get_database_dir returns
DatabaseDir == join(BaseDir, "db")

\* what a call ends with when os.makedirs raises
RaisedOSError == <<"raise", "OSError">>

\* a path returned to the caller
PyPath(path) == <<"path", path>>

\* a call of the functions of paths.py and secrets.py: its arguments and
\* whether the collaborator it reaches (the file system, the keychain) raises
CallEnv(op, service, key, value, raises) ==
  [op |-> op, service |-> service, key |-> key, value |-> value, raises |-> raises]

\* get_working_dir()
GetWorkingDir(raises) ==
  /\ call' = CallEnv("get_working_dir", <<>>, <<>>, <<>>, raises)
  /\ IF raises
     THEN fs' = fs /\ ret' = RaisedOSError
     ELSE fs' = makedirs(fs, BaseDir) /\ ret' = PyPath(BaseDir)
  /\ UNCHANGED <<db, vault>>

\* get_database_dir(): get_working_dir() and the join, nothing more
GetDatabaseDir(raises) ==
  /\ call' = CallEnv("get_database_dir", <<>>, <<>>, <<>>, raises)
  /\ IF raises
     THEN fs' = fs /\ ret' = RaisedOSError
     ELSE fs' = makedirs(fs, BaseDir) /\ ret' = PyPath(DatabaseDir)
  /\ UNCHANGED <<db, vault>>

\* Preferences() with no db_path: the path the mapping is opened on
PreferencesDefault(raises) ==
  /\ call' = CallEnv("Preferences", <<>>, <<>>, <<>>, raises)
  /\ IF raises
     THEN fs' = fs /\ ret' = RaisedOSError
     ELSE fs' = makedirs(fs, BaseDir) /\ ret' = PyPath(join(DatabaseDir, DB_FILENAME))
  /\ UNCHANGED <<db, vault>>

\* ------------------------------------------------------------ console markup

\* whether c may follow "[" in a tag: [a-z#/@]
IsTagStart(c) == c \in {"#", "/", "@"} \/ \E i \in 1..26 : LowerAlpha[i] = c

\* the "]" that ends the tag whose text runs from j, 0 when a "[" or the end
\* of the text comes first
RECURSIVE TagEnd(_, _)
TagEnd(text, j) ==
  IF j > Len(text) THEN 0
  ELSE IF text[j] = "]" THEN j
  ELSE IF text[j] = "[" THEN 0
  ELSE TagEnd(text, j + 1)

\* Style.normalize of a style that is one word
normalize(name) == Lower(Strip(name))

\* the topmost open tag named name, 0 when there is none
TopMatch(stack, name) ==
  IF \E k \in 1..Len(stack) : stack[k] = name
  THEN CHOOSE k \in 1..Len(stack) :
         stack[k] = name /\ \A m \in (k + 1)..Len(stack) : stack[m] # name
  ELSE 0

\* the stack without its k-th tag
Without(stack, k) == SubSeq(stack, 1, k - 1) \o SubSeq(stack, k + 1, Len(stack))

\* whether rendering the markup from position i with the open tags of stack
\* ends without a MarkupError: a closing tag must match an open one
RECURSIVE Renders(_, _, _)
Renders(text, i, stack) ==
  IF i > Len(text) THEN TRUE
  ELSE IF /\ text[i] = "[" /\ i < Len(text)
          /\ IsTagStart(text[i + 1]) /\ TagEnd(text, i + 2) > 0
  THEN LET e == TagEnd(text, i + 2)
           name == SubSeq(text, i + 1, e - 1)
           style == normalize(Tail(name))
       IN IF name[1] # "/" THEN Renders(text, e + 1, Append(stack, normalize(name)))
          ELSE IF Strip(Tail(name)) = <<>>
          THEN stack # <<>> /\ Renders(text, e + 1, Without(stack, Len(stack)))
          ELSE /\ TopMatch(stack, style) > 0
               /\ Renders(text, e + 1, Without(stack, TopMatch(stack, style)))
  ELSE Renders(text, i + 1, stack)

\* whether console.print(text) returns
console_print(text) == Renders(text, 1, <<>>)

\* what a call ends with when console.print raises
RaisedMarkupError == <<"raise", "MarkupError">>

\* ------------------------------------------------------------ secrets

\* service_name of a SecretsManager made with no argument
DefaultService == <<"l", "o", "o", "m">>

\* the services the managers are made for
Services == { DefaultService, <<"t", "e", "s", "t", "_", "s", "e", "r", "v", "i", "c", "e">> }

\* the names secrets are kept under: a plain one, and one that reads as a
\* closing tag of console markup
SecretKeys == { <<"t", "e", "s", "t", "_", "k", "e", "y">>, <<"[", "/", "]">> }

\* the secrets
SecretValues == { <<"t", "e", "s", "t", "_", "v", "a", "l", "u", "e">> }

\* str(e) of the error the keychain raises
KeychainError == <<"K", "e", "y", "c", "h", "a", "i", "n", " ", "e", "r", "r", "o", "r">>

\* f"[red]Error {doing} secret '{key}': {e}[/red]"
ErrorMessage(doing, key, e) ==
  <<"[", "r", "e", "d", "]", "E", "r", "r", "o", "r", " ">> \o doing
    \o <<" ", "s", "e", "c", "r", "e", "t", " ", "'">> \o key \o <<"'", ":", " ">> \o e
    \o <<"[", "/", "r", "e", "d", "]">>

\* the except branch of the three methods: print the message, then the value
\* the method gives up with
Except(doing, key, e, giveup) ==
  IF console_print(ErrorMessage(doing, key, e)) THEN giveup ELSE RaisedMarkupError

\* the keychains the calls start from: empty, or one secret under one name
InitVaults ==
  { Vault(<<>>, <<>>) }
    \cup { Vault([sk \in {<<service, key>>} |-> value], <<>>) :
            service \in Services, key \in SecretKeys, value \in SecretValues }

\* SecretsManager(service).save_secret(key, value)
SaveSecret(service, key, value, raises) ==
  /\ call' = CallEnv("save_secret", service, key, value, raises)
  /\ vault' = Vault(IF raises THEN vault.data
                    ELSE [sk \in DOMAIN vault.data \cup {<<service, key>>} |->
                            IF sk = <<service, key>> THEN value ELSE vault.data[sk]],
                    << <<"set_password", service, key, value>> >>)
  /\ ret' = IF raises THEN Except(<<"s", "a", "v", "i", "n", "g">>, key, KeychainError, PyBool(FALSE))
            ELSE PyBool(TRUE)
  /\ UNCHANGED <<db, fs>>

\* SecretsManager(service).get_secret(key)
GetSecret(service, key, raises) ==
  /\ call' = CallEnv("get_secret", service, key, <<>>, raises)
  /\ vault' = Vault(vault.data, << <<"get_password", service, key>> >>)
  /\ ret' = IF raises THEN Except(<<"r", "e", "t", "r", "i", "e", "v", "i", "n", "g">>, key, KeychainError, PyNone)
            ELSE IF <<service, key>> \in DOMAIN vault.data
            THEN PyStr(vault.data[<<service, key>>])
            ELSE PyNone
  /\ UNCHANGED <<db, fs>>

\* SecretsManager(service).delete_secret(key); the keychain also raises when
\* it holds no secret under the name
DeleteSecret(service, key, raises) ==
  /\ call' = CallEnv("delete_secret", service, key, <<>>, raises)
  /\ IF raises \/ <<service, key>> \notin DOMAIN vault.data
     THEN /\ vault' = Vault(vault.data, << <<"delete_password", service, key>> >>)
          /\ ret' = Except(<<"d", "e", "l", "e", "t", "i", "n", "g">>, key, KeychainError, PyBool(FALSE))
     ELSE /\ vault' = Vault([sk \in DOMAIN vault.data \ {<<service, key>>} |->
                               vault.data[sk]],
                            << <<"delete_password", service, key>> >>)
          /\ ret' = PyBool(TRUE)
  /\ UNCHANGED <<db, fs>>

\* SecretsManager(service).list_secrets(): two notes on the console, no call
\* of the keychain
ListSecrets(service) ==
  /\ call' = CallEnv("list_secrets", service, <<>>, <<>>, FALSE)
  /\ vault' = Vault(vault.data, <<>>)
  /\ ret' = PyList(<<>>)
  /\ UNCHANGED <<db, fs>>

InitEnv ==
  /\ db = <<>>
  /\ call = CallEnv("start", <<>>, <<>>, <<>>, FALSE)
  /\ ret = PyNone
  /\ fs \in { makedirs({}, SubSeq(DatabaseDir, 1, n)) :
               n \in Len(Home)..Len(DatabaseDir) }
  /\ vault \in InitVaults

NextEnv ==
  \/ \E raises \in BOOLEAN : GetWorkingDir(raises)
  \/ \E raises \in BOOLEAN : GetDatabaseDir(raises)
  \/ \E raises \in BOOLEAN : PreferencesDefault(raises)
  \/ \E service \in Services, key \in SecretKeys, value \in SecretValues,
         raises \in BOOLEAN : SaveSecret(service, key, value, raises)
  \/ \E service \in Services, key \in SecretKeys, raises \in BOOLEAN :
       GetSecret(service, key, raises)
  \/ \E service \in Services, key \in SecretKeys, raises \in BOOLEAN :
       DeleteSecret(service, key, raises)
  \/ \E service \in Services : ListSecrets(service)

\* the default directory and the keychain
SpecEnv == InitEnv /\ [][NextEnv]_vars

\* ------------------------------------------------------------ properties

\* get(key) with no default and no type_
Plain(d, key) == get(d, key, PyNone, "none")

\* whether the call c can change the entry of key: a set or delete of it, a clear
Touches(c, key) ==
  \/ c.op \in {"set", "delete"} /\ c.key = key
  \/ c.op = "clear"

\* raw keys outside the namespace
Foreign(d) == {rk \in DOMAIN d : ~HasPrefix(rk, PREFS_PREFIX)}

\* C1 (round trip): right after set(k, v), get(k) with no default and no
\* coercion is v, and it stays v over every call that is no set or delete of k
\* and no clear.
C1_RoundTrip ==
  [][ /\ call'.op = "set" => Plain(db', call'.key) = call'.value
      /\ \A k \in Keys : ~Touches(call', k) => Plain(db', k) = Plain(db, k)
    ]_vars

\* a get with no coercion returned the nested mapping that a set stored
C1_Witness ==
  /\ call.op = "get" /\ call.type_ = "none"
  /\ ret = PyDict(<< <<<<"k">>, PyDict(<< <<<<"n">>, PyList(<<PyNone, PyInt(1)>>)>> >>)>>,
                     << <<>>, PyStr(<<>>)>> >>)

\* C2 (namespace isolation): every call leaves each entry whose raw key does
\* not start with "prefs:" in place with its value, and each key of the result
\* of all() comes from an entry under "prefs:": the result has one key per such
\* entry and none for the foreign ones.
C2_Isolation ==
  [][ /\ \A rk \in Foreign(db) : rk \in DOMAIN db' /\ db'[rk] = db[rk]
      /\ call'.op = "all" =>
           /\ \A key \in DOMAIN ret'[2] :
                RawKey(PrefKey(key)) \in DOMAIN db' \ Foreign(db')
           /\ Cardinality(DOMAIN ret'[2]) = Cardinality(DOMAIN db' \ Foreign(db'))
    ]_vars

\* all() returned one preference out of a mapping that also holds foreign entries
C2_Witness ==
  /\ call.op = "all"
  /\ Cardinality(DOMAIN ret[2]) = 1
  /\ Cardinality(Foreign(db)) = 3

\* C3 (last write wins): set(k, v) makes get(k) return v whatever was stored
\* before and leaves get and exists of every other key as they were; after
\* delete(k) or clear() get(k) is the default; no other call changes get(k).
C3_LastWriteWins ==
  [][ \A k \in Keys :
        /\ call'.op = "set" /\ call'.key = k =>
             /\ \A default \in Defaults : get(db', k, default, "none") = call'.value
             /\ \A k2 \in Keys \ {k} :
                  /\ Plain(db', k2) = Plain(db, k2)
                  /\ exists(db', k2) = exists(db, k2)
        /\ (call'.op = "delete" /\ call'.key = k) \/ call'.op = "clear" =>
             \A default \in Defaults, type_ \in Types :
               get(db', k, default, type_) = default
        /\ ~Touches(call', k) =>
             \A default \in Defaults :
               get(db', k, default, "none") = get(db, k, default, "none")
    ]_vars

\* set("prefs:", v) was made while the empty key holds another value
C3_Witness ==
  /\ call.op = "set" /\ call.key = PREFS_PREFIX
  /\ exists(db, <<>>)
  /\ Plain(db, <<>>) # call.value

\* C4 (default on miss): a get of a key whose namespaced key is absent returns
\* the default it was given, whatever type_ is; with no default that is None.
C4_DefaultOnMiss ==
  call.op = "get" /\ ~exists(db, call.key) => ret = call.default

\* a miss with default 99 and type_=float returned the int 99
C4_Witness ==
  /\ call.op = "get" /\ ~exists(db, call.key)
  /\ call.default = PyInt(99) /\ call.type_ = "float"
  /\ ret = PyInt(99)

\* C5 (delete): delete(k) returns whether the namespaced key existed, and
\* exists(k) is false afterwards; on an absent key the mapping is unchanged;
\* delete(k) right after set(k, v) returns true, right after delete(k) false.
C5_Delete ==
  [][ call'.op = "delete" =>
        /\ ret' = PyBool(exists(db, call'.key))
        /\ ~exists(db', call'.key)
        /\ ~exists(db, call'.key) => db' = db
        /\ call.op = "set" /\ call.key = call'.key => ret' = PyBool(TRUE)
        /\ call.op = "delete" /\ call.key = call'.key => ret' = PyBool(FALSE)
    ]_vars

\* a delete returned true and other preferences are still stored
C5_Witness ==
  /\ call.op = "delete" /\ ret = PyBool(TRUE)
  /\ PrefItems(db) # {}

\* C6 (clear): clear() returns the number of entries under "prefs:" before the
\* call, which is the size of all() then; afterwards all() is empty, exists is
\* false for every key, and the foreign entries are as they were.
C6_Clear ==
  [][ call'.op = "clear" =>
        /\ ret' = PyInt(Cardinality(DOMAIN db \ Foreign(db)))
        /\ ret' = PyInt(Cardinality(DOMAIN all(db)))
        /\ DOMAIN all(db') = {}
        /\ \A k \in Keys : ~exists(db', k)
        /\ DOMAIN db' = Foreign(db)
        /\ \A rk \in Foreign(db) : db'[rk] = db[rk]
    ]_vars

\* clear() returned 2 and left the three foreign entries
C6_Witness ==
  /\ call.op = "clear" /\ ret = PyInt(2)
  /\ Cardinality(DOMAIN db) = 3

\* C7 (all agrees with get and exists): the keys of all() are the keys that
\* exist, and all()[k] equals get(k) for each of them, legacy entries included.
C7_AllAgreesWithGet ==
  call.op = "all" =>
    /\ DOMAIN ret[2] = {k \in Keys : exists(db, k)}
    /\ \A k \in DOMAIN ret[2] : ret[2][k] = Plain(db, k)

\* the stored bytes that are not JSON
NonJson ==
  { <<"r", "a", "w">>, <<"xFF", "4", "2">>, <<"xC3", "xA9">>, <<"N", "o">>,
    <<"+", "5">>, <<"0", "4", "2">> }

\* C8 (legacy raw fallback): a key whose stored bytes are not JSON exists, and
\* get of it with no coercion returns those bytes unchanged.
C8_LegacyRaw ==
  \A k \in Keys :
    Contains(db, PrefKey(k)) /\ db[RawKey(PrefKey(k))] \in NonJson =>
      /\ exists(db, k)
      /\ call.op = "get" /\ call.key = k /\ call.type_ = "none" =>
           ret = PyBytes(db[RawKey(PrefKey(k))])

\* get returned the bytes that are not UTF-8
C8_Witness ==
  /\ call.op = "get" /\ call.type_ = "none" /\ call.default = PyInt(99)
  /\ ret = PyBytes(<<"xFF", "4", "2">>)

\* the bytes stored for the key k, and what get decodes from them
Stored(k) == db[RawKey(PrefKey(k))]

\* C9 (boolean coercion table): when the stored value is a string that,
\* stripped and lower-cased, is one of "1", "true", "yes", "y", "on",
\* get(type_=bool) returns true, and false when it is one of "0", "false",
\* "no", "n", "off", whatever the default; so for every spelling of the lists.
C9_BoolTable ==
  call.op = "get" /\ call.type_ = "bool" /\ exists(db, call.key) =>
    /\ Tag(Decoded(Stored(call.key))) = "str" =>
         LET s == Lower(Strip(Payload(Decoded(Stored(call.key)))))
         IN /\ s \in TruthyStrings => ret = PyBool(TRUE)
            /\ s \in FalsyStrings => ret = PyBool(FALSE)
    /\ \A s \in TrueStrings :
         Stored(call.key) = Utf8Encode(json_dumps(PyStr(s))) => ret = PyBool(TRUE)
    /\ \A s \in FalseStrings :
         Stored(call.key) = Utf8Encode(json_dumps(PyStr(s))) => ret = PyBool(FALSE)

\* get(type_=bool, default=99) of the stored string "\tOFF\n" returned false
C9_Witness ==
  /\ call.op = "get" /\ call.type_ = "bool" /\ call.default = PyInt(99)
  /\ exists(db, call.key)
  /\ Stored(call.key) = Utf8Encode(json_dumps(PyStr(<<"\t", "O", "F", "F", "\n">>)))
  /\ ret = PyBool(FALSE)

\* whether get answers from the table of boolean words
TableCase(type_, value) ==
  /\ type_ = "bool" /\ Tag(value) = "str"
  /\ Lower(Strip(Payload(value))) \in TruthyStrings \cup FalsyStrings

\* C10 (coercion failure fallback): when get casts the decoded value (the key
\* is present, type_ is given, the value is not None and no boolean word) and
\* type_(value) raises, get returns the default; when it succeeds, get returns
\* what it built: the stored "42" with type_=int gives 42, "abc" the default.
C10_CoercionFallback ==
  call.op = "get" /\ call.type_ # "none" /\ exists(db, call.key) =>
    LET value == Decoded(Stored(call.key))
        built == Construct(call.type_, value)
    IN /\ Tag(value) # "null" /\ ~TableCase(call.type_, value) =>
            ret = IF built[1] THEN built[2] ELSE call.default
       /\ value = PyStr(<<"4", "2">>) /\ call.type_ = "int" => ret = PyInt(42)
       /\ value = PyStr(<<"3", ".", "5">>) /\ call.type_ = "float" =>
            ret = PyFloat(FALSE, 3, <<"5">>)
       /\ value = PyStr(<<"a", "b", "c">>) /\ call.type_ \in {"int", "float"} =>
            ret = call.default

\* get(type_=int, default=99) of the stored string "abc" returned 99
C10_Witness ==
  /\ call.op = "get" /\ call.type_ = "int" /\ call.default = PyInt(99)
  /\ exists(db, call.key)
  /\ Decoded(Stored(call.key)) = PyStr(<<"a", "b", "c">>)
  /\ ret = PyInt(99)

\* whether an access of the mapping d that the call c ran raised
Signalled(d, c) ==
  CASE c.op = "set" -> "store" \in c.fail
    [] c.op = "get" ->
         \/ "contains" \in c.fail
         \/ /\ exists(d, c.key)
            /\ \/ "read" \in c.fail
               \/ "reread" \in c.fail /\ ~json_loads(d[RawKey(PrefKey(c.key))])[1]
    [] c.op = "delete" ->
         "contains" \in c.fail \/ (exists(d, c.key) /\ "del" \in c.fail)
    [] c.op = "exists" -> "contains" \in c.fail
    [] c.op = "all" -> "items" \in c.fail
    [] c.op = "clear" -> c.fail # {}
    [] OTHER -> FALSE

\* C11 (store errors are never swallowed): when an access of the mapping
\* raises inside set, get, delete, exists, all or clear, the call ends with
\* that error; get returns no value, decoded, raw or default, after its read
\* of the stored value raised.
C11_ErrorsPropagate ==
  [][Signalled(db, call') => ret' = Raised]_vars

\* C12 (clear failing part-way): when the at-th deletion of clear raises, the
\* error reaches the caller, every entry still in the mapping was there before
\* with the same bytes, and every entry of another namespace is still there.
C12_ClearPartial ==
  [][call'.op = "clear" /\ "del" \in call'.fail =>
       /\ ret' = Raised
       /\ \A rk \in DOMAIN db' : rk \in DOMAIN db /\ db'[rk] = db[rk]
       /\ \A rk \in PrefItems(db) :
            rk \notin DOMAIN db' \/ db'[rk] = db[rk]
       /\ \A rk \in Foreign(db) : rk \in DOMAIN db' /\ db'[rk] = db[rk]]_vars

\* clear raised at its second deletion: one preference is gone, one is left
C12_Witness ==
  /\ call.op = "clear" /\ call.fail = {"del"} /\ call.at = 2
  /\ ret = Raised
  /\ Cardinality(PrefItems(db)) = 1
  /\ Foreign(db) # {}

\* C13 (the default directory is created): after get_database_dir() returned,
\* the directory it returned exists, and the file Preferences() opens with no
\* db_path lies in a directory that exists.
C13_DirCreated ==
  /\ call.op = "get_database_dir" /\ Tag(ret) = "path" => Payload(ret) \in fs
  /\ call.op = "Preferences" /\ Tag(ret) = "path" =>
       SubSeq(Payload(ret), 1, Len(Payload(ret)) - 1) \in fs

\* C14 (the manager never raises on a keychain failure): save_secret returns
\* true when the keychain took the secret and false when it raised; get_secret
\* returns the secret held, None when none is held or the keychain raised;
\* delete_secret returns true when the keychain deleted the secret, false when
\* it raised, as it does for a name it does not hold; each call reaches the
\* keychain once, with the service of the manager and the key.
C14_NeverRaises ==
  [][call'.op \in {"save_secret", "get_secret", "delete_secret"} =>
       LET sk == <<call'.service, call'.key>>
           held == sk \in DOMAIN vault.data
       IN /\ call'.op = "save_secret" => ret' = PyBool(~call'.raises)
          /\ call'.op = "get_secret" =>
               ret' = IF ~call'.raises /\ held THEN PyStr(vault.data[sk]) ELSE PyNone
          /\ call'.op = "delete_secret" => ret' = PyBool(~call'.raises /\ held)
          /\ Len(vault'.log) = 1
          /\ vault'.log[1][2] = call'.service /\ vault'.log[1][3] = call'.key]_vars

\* the bytes set stores for None
NullBytes == Utf8Encode(json_dumps(PyNone))

\* C15 (stored null skips coercion): when the key is present and its stored
\* value decodes to None, get returns None for every default and every type_;
\* so right after set(k, None), exists(k) is true and get(k, default=D,
\* type_=T) is None for every D and T.
C15_NullSkipsCast ==
  /\ call.op = "get" /\ exists(db, call.key)
       /\ (Stored(call.key) = NullBytes \/ Decoded(Stored(call.key)) = PyNone)
       => ret = PyNone
  /\ call.op = "set" /\ call.value = PyNone =>
       /\ exists(db, call.key)
       /\ \A D \in Defaults, T \in Types : get(db, call.key, D, T) = PyNone

\* get(type_=int, default=99) of a stored None returned None
C15_Witness ==
  /\ call.op = "get" /\ call.type_ = "int" /\ call.default = PyInt(99)
  /\ exists(db, call.key)
  /\ Stored(call.key) = NullBytes
  /\ ret = PyNone

\* C16 (boolean fall-through): when the stored value is a string that, stripped
\* and lower-cased, is no boolean word, get(type_=bool) returns bool() of the
\* string as stored: true when it is not empty, blank strings included, false
\* when it is empty, and so never the default.
C16_BoolFallThrough ==
  call.op = "get" /\ call.type_ = "bool" /\ exists(db, call.key) =>
    /\ LET value == Decoded(Stored(call.key))
       IN Tag(value) = "str" /\ ~TableCase("bool", value) =>
            /\ ret = PyBool(Payload(value) # <<>>)
            /\ ret # call.default
    /\ \A s \in OtherStrings :
         Stored(call.key) = Utf8Encode(json_dumps(PyStr(s))) =>
           ret = PyBool(s # <<>>)

\* get(type_=bool, default=99) of the stored string " " returned true
C16_Witness ==
  /\ call.op = "get" /\ call.type_ = "bool" /\ call.default = PyInt(99)
  /\ exists(db, call.key)
  /\ Stored(call.key) = Utf8Encode(json_dumps(PyStr(<<" ">>)))
  /\ ret = PyBool(TRUE)

\* C17 (reads are pure): get, exists and all leave the mapping as it was, every
\* entry of every namespace, whether get hit, missed, fell back to the raw
\* value or failed to cast; a legacy raw value stays the bytes it was.
C17_ReadsArePure ==
  [][call'.op \in {"get", "exists", "all"} => db' = db]_vars

\* get(type_=int, default=99) fell back to the raw bytes b"raw", failed to cast
\* them and returned 99, the bytes still stored
C17_Witness ==
  /\ call.op = "get" /\ call.type_ = "int" /\ call.default = PyInt(99)
  /\ exists(db, call.key)
  /\ Stored(call.key) = <<"r", "a", "w">>
  /\ Foreign(db) # {}
  /\ ret = PyInt(99)

====
